---- MODULE Spec2Model ----
(***************************************************************************)
(* Model of the dispatch-and-retry engine of dosenv (src/dosenv.py):       *)
(* LoadTester.run (the Run Controller and producer), LoadTester._worker    *)
(* (the Worker Pool), LoadTester._make_request (the Request Executor with  *)
(* its retry policy), LoadTester._update_stats (the Statistics Aggregator) *)
(* and LoadTester._signal_handler (the interrupt).                         *)
(*                                                                         *)
(* Tasks are asyncio coroutines.  A step of the model is the code between  *)
(* two points where another party can act: the suspension points (queue    *)
(* get/put/join, the HTTP attempt, the sleeps) and the reads of            *)
(* self.running, which the signal handler may clear between any two        *)
(* bytecodes of the main thread.                                           *)
(***************************************************************************)
EXTENDS Bags, FiniteSets, Integers, Sequences, TLC

(* ------------------------------ bounds -------------------------------- *)
MaxRequests == 3
MaxConcurrency == 2

(* --------------------------- configuration ---------------------------- *)
VARIABLES
    num_requests, \* self.num_requests
    concurrency,  \* self.concurrency
    target        \* the outcomes the target and the network produce in this run

(* ------------------------- program state ------------------------------ *)
VARIABLES
    running,      \* self.running
    stats,        \* self.stats
    ctl,          \* position of run()
    i,            \* loop variable of the producer loop in run()
    queue,        \* items of the asyncio.Queue
    unfinished,   \* the queue's count of items put and not yet task_done
    wpc,          \* position of each worker task
    wreq,         \* request_id held by each worker
    retry,        \* retry_count of the current _make_request call of each worker
    delay,        \* argument of the backoff sleep a worker is suspended in (ms)
    result,       \* value returned by _make_request to each worker
    warm_pc,      \* position of each warmup request (a task of the warmup gather)
    warm_retry    \* retry_count of the current _make_request call of each warmup request

(* ------------------------ observation state --------------------------- *)
VARIABLES
    tries,        \* per worker: HTTP attempts started for the identifier it holds
    caught,       \* per worker: class of the exception its last attempt raised
    recorded,     \* per identifier: Results passed to _update_stats
    marked,       \* per identifier: task_done() calls
    lateGets      \* per worker: queue.get() completions after the flag was cleared

vars == << num_requests, concurrency, target, running, stats, ctl, i, queue, unfinished,
           wpc, wreq, retry, delay, result, warm_pc, warm_retry,
           tries, caught, recorded, marked, lateGets >>

Workers == 0 .. (concurrency - 1)
Ids == 1 .. num_requests

Min(a, b) == IF a <= b THEN a ELSE b

\* warmup_count = min(10, self.concurrency // 10, 50)
warmup_count == Min(Min(10, concurrency \div 10), 50)

\* range(warmup_count): the request_ids of the warmup requests
WarmupIds == 0 .. (warmup_count - 1)

(* ------------------------- Python values ------------------------------ *)
None == [t |-> "NoneType"]
PyInt(n) == [t |-> "int", v |-> n]
PyStr(s) == [t |-> "str", v |-> s]

Digit(d) ==
    CASE d = 0 -> "0" [] d = 1 -> "1" [] d = 2 -> "2" [] d = 3 -> "3"
      [] d = 4 -> "4" [] d = 5 -> "5" [] d = 6 -> "6" [] d = 7 -> "7"
      [] d = 8 -> "8" [] d = 9 -> "9"

RECURSIVE StrInt(_)
StrInt(n) == IF n < 10 THEN Digit(n) ELSE StrInt(n \div 10) \o Digit(n % 10)

\* str(x) of an int or a str
Str(x) == IF x.t = "int" THEN StrInt(x.v) ELSE x.v

(* ------------------------ outcomes of an attempt ---------------------- *)
\* exception classes session.request can raise
ExcClasses == {"TimeoutError", "ClientConnectorError", "ClientProxyConnectionError",
               "ClientResponseError", "ValueError"}

\* the class itself and the base classes an except clause can name
\* (aiohttp: ClientProxyConnectionError derives from ClientConnectorError)
Bases(c) ==
    IF c = "ClientProxyConnectionError"
    THEN {"ClientProxyConnectionError", "ClientConnectorError", "Exception"}
    ELSE {c, "Exception"}

IsInstance(c, classes) == Bases(c) \cap classes # {}

\* str(e)
ExcMessage(c) ==
    CASE c = "TimeoutError" -> ""
      [] c = "ClientConnectorError" -> "Cannot connect to host"
      [] c = "ClientProxyConnectionError" -> "Cannot connect to proxy"
      [] c = "ClientResponseError" -> "Bad response"
      [] c = "ValueError" -> "invalid URL"

\* elapsed time of an attempt (time is not modelled: one abstract sample)
ResponseTimes == {1}

\* an attempt ends with a response carrying a status code, or with an
\* exception (a ClientResponseError carries a status too)
Response(status) == [kind |-> "response", status |-> status]
Raise(c, status) == [kind |-> "raise", exc |-> c, status |-> status]

\* the behaviours of the target a run is checked against: each run sees the
\* outcomes of one of them, in any order and for any attempt
Targets ==
    { {Response(200), Response(404), Raise("TimeoutError", 0)},
      {Raise("TimeoutError", 0), Raise("ClientResponseError", 404),
       Raise("ValueError", 0)},
      {Response(200), Raise("ClientConnectorError", 0),
       Raise("ClientProxyConnectionError", 0)},
      {Response(302), Response(400), Raise("ClientResponseError", 302)} }

(* --------------------------- _make_request ---------------------------- *)
max_retries == 3
retry_delay == 100   \* milliseconds

RECURSIVE Pow2(_)
Pow2(n) == IF n = 0 THEN 1 ELSE 2 * Pow2(n - 1)

\* variant: the delay grows linearly
BackoffDelay_Linear(retry_count) == retry_delay * (retry_count + 1)

\* retry_delay * (2 ** retry_count)
BackoffDelay(retry_count) == retry_delay * Pow2(retry_count)

\* mutant: the final `except Exception` clause is missing
ExceptClause_NoCatchAll(c) ==
    IF IsInstance(c, {"TimeoutError"}) THEN "timeout"
    ELSE IF IsInstance(c, {"ClientConnectorError", "ServerConnectionError",
                           "ConnectionError"}) THEN "connection"
    ELSE IF IsInstance(c, {"ClientProxyConnectionError"}) THEN "proxy"
    ELSE IF IsInstance(c, {"ClientResponseError"}) THEN "response_error"
    ELSE "uncaught"

\* the except clause that handles an exception of class c: the first one, in
\* source order, whose classes the exception is an instance of
ExceptClause(c) ==
    IF IsInstance(c, {"TimeoutError"}) THEN "timeout"
    ELSE IF IsInstance(c, {"ClientConnectorError", "ServerConnectionError",
                           "ConnectionError"}) THEN "connection"
    ELSE IF IsInstance(c, {"ClientProxyConnectionError"}) THEN "proxy"
    ELSE IF IsInstance(c, {"ClientResponseError"}) THEN "response_error"
    ELSE IF IsInstance(c, {"Exception"}) THEN "exception"
    ELSE "uncaught"

\* mutant: the ClientResponseError clause retries as well
RetryingClauses_WithResponseError == {"timeout", "connection", "proxy", "response_error"}

\* the clauses that retry while retry_count < max_retries
RetryingClauses == {"timeout", "connection", "proxy"}

\* variant: no upper limit on the status of a success
Success_NoUpperLimit(status_code) == 200 <= status_code

Success(status_code) == 200 <= status_code /\ status_code < 400

\* the dict returned when a response was obtained
ResponseResult(request_id, status, rt) ==
    [request_id |-> request_id, status_code |-> PyInt(status),
     response_time |-> rt, success |-> Success(status)]

\* the dict returned by the except clause that handles o.exc
ErrorResult(request_id, o, rt) ==
    LET clause == ExceptClause(o.exc)
        status_code ==
            CASE clause = "timeout" -> PyStr("TIMEOUT")
              [] clause = "connection" -> PyStr("CONNECTION_ERROR")
              [] clause = "proxy" -> PyStr("PROXY_ERROR")
              [] clause = "response_error" -> PyInt(o.status)
              [] clause = "exception" -> PyStr("ERROR")
        error_type ==
            CASE clause = "timeout" -> "TimeoutError"
              [] clause = "connection" -> o.exc
              [] clause = "proxy" -> "ClientProxyConnectionError"
              [] clause = "response_error" -> "ClientResponseError"
              [] clause = "exception" -> o.exc
        error ==
            CASE clause = "timeout" -> "Request timed out after 30 seconds"
              [] clause = "response_error" ->
                    "HTTP " \o StrInt(o.status) \o ": " \o ExcMessage(o.exc)
              [] OTHER -> ExcMessage(o.exc)
    IN [request_id |-> request_id, status_code |-> status_code,
        response_time |-> rt, success |-> FALSE,
        error_type |-> error_type, error |-> error]

\* mutant: the retry test admits one retry too many
Retries_OneTooMany(o, retry_count) ==
    /\ o.kind = "raise"
    /\ ExceptClause(o.exc) \in RetryingClauses
    /\ retry_count <= max_retries

\* whether the handling clause sleeps and calls _make_request again
Retries(o, retry_count) ==
    /\ o.kind = "raise"
    /\ ExceptClause(o.exc) \in RetryingClauses
    /\ retry_count < max_retries

(* ---------------------------- _update_stats --------------------------- *)
\* mutant: `failed` is counted inside the `if 'error_type' in result` branch
update_stats_FailedOnlyWithError(s, r) ==
    LET failedNow == ~r.success
        withError == failedNow /\ "error_type" \in DOMAIN r
        error_key == IF withError THEN r.error_type \o ": " \o r.error ELSE ""
    IN [s EXCEPT
          !.total_requests = @ + 1,
          !.successful = IF r.success THEN @ + 1 ELSE @,
          !.failed = IF withError THEN @ + 1 ELSE @,
          !.errors = IF withError THEN @ (+) SetToBag({error_key}) ELSE @,
          !.status_codes = @ (+) SetToBag({Str(r.status_code)}),
          !.response_times = Append(@, r.response_time)]

update_stats(s, r) ==
    LET failedNow == ~r.success
        withError == failedNow /\ "error_type" \in DOMAIN r
        error_key == IF withError THEN r.error_type \o ": " \o r.error ELSE ""
    IN [s EXCEPT
          !.total_requests = @ + 1,
          !.successful = IF r.success THEN @ + 1 ELSE @,
          !.failed = IF failedNow THEN @ + 1 ELSE @,
          !.errors = IF withError THEN @ (+) SetToBag({error_key}) ELSE @,
          !.status_codes = @ (+) SetToBag({Str(r.status_code)}),
          !.response_times = Append(@, r.response_time)]

(* ------------------------------- __init__ ----------------------------- *)
EmptyStats ==
    [total_requests |-> 0, successful |-> 0, failed |-> 0,
     status_codes |-> EmptyBag, errors |-> EmptyBag, response_times |-> << >>,
     start_time |-> "None", end_time |-> "None"]

Init ==
    /\ num_requests \in 1 .. MaxRequests
    /\ concurrency \in 1 .. MaxConcurrency
    /\ target \in Targets
    /\ running = TRUE
    /\ stats = EmptyStats
    /\ ctl = "Idle"
    /\ i = 0
    /\ queue = << >>
    /\ unfinished = 0
    /\ wpc = [w \in Workers |-> "nil"]
    /\ wreq = [w \in Workers |-> 0]
    /\ retry = [w \in Workers |-> 0]
    /\ delay = [w \in Workers |-> 0]
    /\ result = [w \in Workers |-> None]
    /\ warm_pc = [k \in WarmupIds |-> "nil"]
    /\ warm_retry = [k \in WarmupIds |-> 0]
    /\ tries = [w \in Workers |-> 0]
    /\ caught = [w \in Workers |-> "none"]
    /\ recorded = [id \in Ids |-> 0]
    /\ marked = [id \in Ids |-> 0]
    /\ lateGets = [w \in Workers |-> 0]

config == << num_requests, concurrency, target >>
observed == << tries, caught, recorded, marked, lateGets >>
workerVars == << wpc, wreq, retry, delay, result >>
warmVars == << warm_pc, warm_retry >>

(* ------------------------- the asyncio event loop --------------------- *)
\* A task runs until it suspends: run() is between suspension points at the
\* head of its producer loop and after join() has returned, a worker at its
\* loop test, at the entry of _make_request and once _make_request returned.
CtlBusy == ctl \in {"Produce", "ShuttingDown"}
WBusy(w) == wpc[w] \in {"loop", "call", "ret"}

CtlCanRun == \A w \in Workers : ~WBusy(w)
WCanRun(w) == ~CtlBusy /\ \A v \in Workers \ {w} : ~WBusy(v)

\* the loop runs its ready tasks first in, first out: the worker tasks start
\* in the order of their creation, and before any worker that had suspended
\* resumes
StartsFirst(w) ==
    IF wpc[w] = "created"
    THEN \A v \in Workers : v < w => wpc[v] # "created"
    ELSE \A v \in Workers : wpc[v] # "created"

\* the stagger sleeps begin in the order of the worker ids and worker_id * 10ms
\* grows with the id: they end in that order
StaggerOrder(w) == \A v \in Workers : v < w => wpc[v] # "stagger"

\* a suspended worker resumes normally unless its cancellation was requested
WCanResume(w) == WCanRun(w) /\ ctl # "Gather" /\ StartsFirst(w)

(* --------------------------- _signal_handler -------------------------- *)
Interrupt ==
    /\ running
    /\ ctl # "Done"
    /\ running' = FALSE
    /\ UNCHANGED << config, warmVars, stats, ctl, i, queue, unfinished, workerVars, observed >>

(* --------------------------------- run -------------------------------- *)
\* variant: a queue half as large again
maxsize_ThreeTimes == concurrency * 3

maxsize == concurrency * 2

\* run() up to the producer loop, when no warmup is due: start_time is taken,
\* the queue and the worker tasks are created
RunStart ==
    /\ ctl = "Idle"
    /\ warmup_count = 0
    /\ stats' = [stats EXCEPT !.start_time = "set"]
    /\ wpc' = [w \in Workers |-> "created"]
    /\ ctl' = "Produce"
    /\ UNCHANGED << config, warmVars, running, i, queue, unfinished, wreq, retry, delay, result,
                    observed >>

\* run() up to the await of the warmup gather, when a warmup is due:
\* start_time is taken and one _make_request(session, i) per warmup request
\* is handed to asyncio.gather
RunStartWarmup ==
    /\ ctl = "Idle"
    /\ warmup_count > 0
    /\ stats' = [stats EXCEPT !.start_time = "set"]
    /\ warm_pc' = [k \in WarmupIds |-> "created"]
    /\ ctl' = "Warmup"
    /\ UNCHANGED << config, running, i, queue, unfinished, workerVars, warm_retry,
                    observed >>

\* entry of _make_request for a warmup request, first call or retry:
\* `if not self.running: return None`, else the request is sent
WarmupEntry(k) ==
    /\ warm_pc[k] \in {"created", "call"}
    /\ warm_pc' = [warm_pc EXCEPT ![k] = IF running THEN "attempt" ELSE "done"]
    /\ UNCHANGED << config, running, stats, ctl, i, queue, unfinished, workerVars,
                    warm_retry, observed >>

\* the attempt of a warmup request finishes: it retries as any request does;
\* whatever it returns or raises is kept by gather and never looked at
WarmupAttemptFinishes(k) ==
    /\ warm_pc[k] = "attempt"
    /\ \E o \in target :
         warm_pc' = [warm_pc EXCEPT ![k] =
                        IF Retries(o, warm_retry[k]) THEN "sleep" ELSE "done"]
    /\ UNCHANGED << config, running, stats, ctl, i, queue, unfinished, workerVars,
                    warm_retry, observed >>

\* the backoff sleep of a warmup request ends: _make_request(.., retry_count + 1)
WarmupBackoff(k) ==
    /\ warm_pc[k] = "sleep"
    /\ warm_retry' = [warm_retry EXCEPT ![k] = @ + 1]
    /\ warm_pc' = [warm_pc EXCEPT ![k] = "call"]
    /\ UNCHANGED << config, running, stats, ctl, i, queue, unfinished, workerVars,
                    observed >>

\* the six assignments that reset the stats after the warmup
ResetStats(s) ==
    [s EXCEPT !.total_requests = 0, !.successful = 0, !.failed = 0,
              !.status_codes = EmptyBag, !.errors = EmptyBag,
              !.response_times = << >>]

\* variant: the gathered warmup results are counted instead of discarded
WarmupDone_CountsWarmup ==
    /\ ctl = "Warmup"
    /\ \A k \in WarmupIds : warm_pc[k] = "done"
    /\ stats' = [stats EXCEPT !.total_requests = @ + warmup_count]
    /\ wpc' = [w \in Workers |-> "created"]
    /\ ctl' = "Produce"
    /\ UNCHANGED << config, running, i, queue, unfinished, wreq, retry, delay, result,
                    warmVars, observed >>

\* the warmup gather returns: the stats are reset, the queue and the worker
\* tasks are created
WarmupDone ==
    /\ ctl = "Warmup"
    /\ \A k \in WarmupIds : warm_pc[k] = "done"
    /\ stats' = ResetStats(stats)
    /\ wpc' = [w \in Workers |-> "created"]
    /\ ctl' = "Produce"
    /\ UNCHANGED << config, running, i, queue, unfinished, wreq, retry, delay, result,
                    warmVars, observed >>

\* queue.put_nowait(i + 1), which ends every put()
PutItem ==
    /\ queue' = Append(queue, i + 1)
    /\ unfinished' = unfinished + 1
    /\ i' = i + 1

\* mutant: the producer loop stops one identifier short
ProducerStep_StopsOneShort ==
    /\ ctl = "Produce"
    /\ CtlCanRun
    /\ IF i + 1 >= num_requests \/ ~running
       THEN ctl' = "Join" /\ UNCHANGED << queue, unfinished, i >>
       ELSE IF Len(queue) < maxsize
            THEN PutItem /\ ctl' = "Produce"
            ELSE ctl' = "Put" /\ UNCHANGED << queue, unfinished, i >>
    /\ UNCHANGED << config, warmVars, running, stats, workerVars, observed >>

\* one pass of the producer loop: the range is exhausted or the flag is found
\* cleared (break), or put() completes at once, or put() suspends on a full queue
ProducerStep ==
    /\ ctl = "Produce"
    /\ CtlCanRun
    /\ IF i = num_requests \/ ~running
       THEN ctl' = "Join" /\ UNCHANGED << queue, unfinished, i >>
       ELSE IF Len(queue) < maxsize
            THEN PutItem /\ ctl' = "Produce"
            ELSE ctl' = "Put" /\ UNCHANGED << queue, unfinished, i >>
    /\ UNCHANGED << config, warmVars, running, stats, workerVars, observed >>

\* a put() suspended on a full queue completes once there is room
ProducerPut ==
    /\ ctl = "Put"
    /\ CtlCanRun
    /\ Len(queue) < maxsize
    /\ PutItem
    /\ ctl' = "Produce"
    /\ UNCHANGED << config, warmVars, running, stats, workerVars, observed >>

\* variant: the controller waits for the workers to return before it
\* cancels them
QueueJoin_AwaitsWorkers ==
    /\ ctl = "Join"
    /\ CtlCanRun
    /\ unfinished = 0
    /\ \A w \in Workers : wpc[w] = "exit"
    /\ ctl' = "ShuttingDown"
    /\ UNCHANGED << config, warmVars, running, stats, i, queue, unfinished, workerVars, observed >>

\* await queue.join(): returns once every item put has been marked done
QueueJoin ==
    /\ ctl = "Join"
    /\ CtlCanRun
    /\ unfinished = 0
    /\ ctl' = "ShuttingDown"
    /\ UNCHANGED << config, warmVars, running, stats, i, queue, unfinished, workerVars, observed >>

\* worker.cancel() for every worker, up to the await of gather
CancelWorkers ==
    /\ ctl = "ShuttingDown"
    /\ CtlCanRun
    /\ ctl' = "Gather"
    /\ UNCHANGED << config, warmVars, running, stats, i, queue, unfinished, workerVars, observed >>

\* variant: end_time is set without awaiting the cancelled workers
Finalize_NoGather ==
    /\ ctl = "Gather"
    /\ stats' = [stats EXCEPT !.end_time = "set"]
    /\ ctl' = "Done"
    /\ UNCHANGED << config, warmVars, running, i, queue, unfinished, workerVars, observed >>

\* asyncio.gather(*workers) returns, then end_time and the report
Finalize ==
    /\ ctl = "Gather"
    /\ \A w \in Workers : wpc[w] \in {"exit", "cancelled"}
    /\ stats' = [stats EXCEPT !.end_time = "set"]
    /\ ctl' = "Done"
    /\ UNCHANGED << config, warmVars, running, i, queue, unfinished, workerVars, observed >>

(* ------------------------------- _worker ------------------------------ *)
\* the task starts running: workers other than 0 sleep worker_id * 10ms first
WorkerStart(w) ==
    /\ wpc[w] = "created"
    /\ WCanResume(w)
    /\ wpc' = [wpc EXCEPT ![w] = IF w > 0 THEN "stagger" ELSE "loop"]
    /\ UNCHANGED << config, warmVars, running, stats, ctl, i, queue, unfinished, wreq, retry,
                    delay, result, observed >>

WorkerStagger(w) ==
    /\ wpc[w] = "stagger"
    /\ WCanResume(w)
    /\ StaggerOrder(w)
    /\ wpc' = [wpc EXCEPT ![w] = "loop"]
    /\ UNCHANGED << config, warmVars, running, stats, ctl, i, queue, unfinished, wreq, retry,
                    delay, result, observed >>

\* mutant: the loop does not test the flag (while True)
WorkerLoop_IgnoresFlag(w) ==
    /\ wpc[w] = "loop"
    /\ wpc' = [wpc EXCEPT ![w] = "get"]
    /\ UNCHANGED << config, warmVars, running, stats, ctl, i, queue, unfinished, wreq, retry,
                    delay, result, observed >>

\* while self.running
WorkerLoop(w) ==
    /\ wpc[w] = "loop"
    /\ wpc' = [wpc EXCEPT ![w] = IF running THEN "get" ELSE "exit"]
    /\ UNCHANGED << config, warmVars, running, stats, ctl, i, queue, unfinished, wreq, retry,
                    delay, result, observed >>

\* mutant: the item is read but stays in the queue
WorkerGet_KeepsItem(w) ==
    /\ wpc[w] = "get"
    /\ WCanResume(w)
    /\ queue # << >>
    /\ wreq' = [wreq EXCEPT ![w] = Head(queue)]
    /\ queue' = queue
    /\ wpc' = [wpc EXCEPT ![w] = "call"]
    /\ lateGets' = [lateGets EXCEPT ![w] = IF running THEN @ ELSE @ + 1]
    /\ UNCHANGED << config, warmVars, running, stats, ctl, i, unfinished, retry, delay, result,
                    tries, caught, recorded, marked >>

\* queue.get() completes and _make_request(session, request_id) is called
WorkerGet(w) ==
    /\ wpc[w] = "get"
    /\ WCanResume(w)
    /\ queue # << >>
    /\ wreq' = [wreq EXCEPT ![w] = Head(queue)]
    /\ queue' = Tail(queue)
    /\ wpc' = [wpc EXCEPT ![w] = "call"]
    /\ lateGets' = [lateGets EXCEPT ![w] = IF running THEN @ ELSE @ + 1]
    /\ UNCHANGED << config, warmVars, running, stats, ctl, i, unfinished, retry, delay, result,
                    tries, caught, recorded, marked >>

\* wait_for times out on an empty queue: except asyncio.TimeoutError: continue
WorkerGetTimeout(w) ==
    /\ wpc[w] = "get"
    /\ WCanResume(w)
    /\ queue = << >>
    /\ wpc' = [wpc EXCEPT ![w] = "loop"]
    /\ UNCHANGED << config, warmVars, running, stats, ctl, i, queue, unfinished, wreq, retry,
                    delay, result, observed >>

\* entry of _make_request: `if not self.running: return None`, else the
\* request is sent
MakeRequestEntry(w) ==
    /\ wpc[w] = "call"
    /\ IF running
       THEN /\ wpc' = [wpc EXCEPT ![w] = "attempt"]
            /\ tries' = [tries EXCEPT ![w] = @ + 1]
            /\ UNCHANGED result
       ELSE /\ wpc' = [wpc EXCEPT ![w] = "ret"]
            /\ result' = [result EXCEPT ![w] = None]
            /\ UNCHANGED tries
    /\ UNCHANGED << config, warmVars, running, stats, ctl, i, queue, unfinished, wreq, retry,
                    delay, caught, recorded, marked, lateGets >>

\* the attempt finishes: a response, or an exception handled by its clause;
\* an exception no clause handles reaches the worker's
\* `except Exception: ... break`
AttemptFinishes(w) ==
    /\ wpc[w] = "attempt"
    /\ WCanResume(w)
    /\ \E o \in target, rt \in ResponseTimes :
         /\ caught' = [caught EXCEPT ![w] = IF o.kind = "raise" THEN o.exc ELSE "none"]
         /\ IF o.kind = "raise" /\ ExceptClause(o.exc) = "uncaught"
            THEN /\ wpc' = [wpc EXCEPT ![w] = "exit"]
                 /\ UNCHANGED << result, delay >>
            ELSE IF Retries(o, retry[w])
            THEN /\ wpc' = [wpc EXCEPT ![w] = "sleep"]
                 /\ delay' = [delay EXCEPT ![w] = BackoffDelay(retry[w])]
                 /\ UNCHANGED result
            ELSE /\ wpc' = [wpc EXCEPT ![w] = "ret"]
                 /\ result' = [result EXCEPT ![w] =
                       IF o.kind = "response"
                       THEN ResponseResult(wreq[w], o.status, rt)
                       ELSE ErrorResult(wreq[w], o, rt)]
                 /\ UNCHANGED delay
    /\ UNCHANGED << config, warmVars, running, stats, ctl, i, queue, unfinished, wreq, retry,
                    tries, recorded, marked, lateGets >>

\* the backoff sleep ends: return await self._make_request(.., retry_count + 1)
BackoffSleep(w) ==
    /\ wpc[w] = "sleep"
    /\ WCanResume(w)
    /\ retry' = [retry EXCEPT ![w] = @ + 1]
    /\ delay' = [delay EXCEPT ![w] = 0]
    /\ caught' = [caught EXCEPT ![w] = "none"]
    /\ wpc' = [wpc EXCEPT ![w] = "call"]
    /\ UNCHANGED << config, warmVars, running, stats, ctl, i, queue, unfinished, wreq, result,
                    tries, recorded, marked, lateGets >>

\* variant: the worker forgets queue.task_done()
WorkerFinish_NoTaskDone(w) ==
    /\ wpc[w] = "ret"
    /\ IF result[w] # None
       THEN /\ stats' = update_stats(stats, result[w])
            /\ recorded' = [recorded EXCEPT ![wreq[w]] = @ + 1]
       ELSE UNCHANGED << stats, recorded >>
    /\ unfinished' = unfinished
    /\ marked' = [marked EXCEPT ![wreq[w]] = @ + 1]
    /\ wpc' = [wpc EXCEPT ![w] = "loop"]
    /\ wreq' = [wreq EXCEPT ![w] = 0]
    /\ result' = [result EXCEPT ![w] = None]
    /\ retry' = [retry EXCEPT ![w] = 0]
    /\ tries' = [tries EXCEPT ![w] = 0]
    /\ caught' = [caught EXCEPT ![w] = "none"]
    /\ UNCHANGED << config, warmVars, running, ctl, i, queue, delay, lateGets >>

\* `if result: self._update_stats(result)` and queue.task_done()
WorkerFinish(w) ==
    /\ wpc[w] = "ret"
    /\ IF result[w] # None
       THEN /\ stats' = update_stats(stats, result[w])
            /\ recorded' = [recorded EXCEPT ![wreq[w]] = @ + 1]
       ELSE UNCHANGED << stats, recorded >>
    /\ unfinished' = unfinished - 1
    /\ marked' = [marked EXCEPT ![wreq[w]] = @ + 1]
    /\ wpc' = [wpc EXCEPT ![w] = "loop"]
    \* request_id, result and retry_count are dead until the next iteration
    \* assigns them: they are cleared here
    /\ wreq' = [wreq EXCEPT ![w] = 0]
    /\ result' = [result EXCEPT ![w] = None]
    /\ retry' = [retry EXCEPT ![w] = 0]
    /\ tries' = [tries EXCEPT ![w] = 0]
    /\ caught' = [caught EXCEPT ![w] = "none"]
    /\ UNCHANGED << config, warmVars, running, ctl, i, queue, delay, lateGets >>

\* worker.cancel() is called on the workers in list order and the event loop
\* wakes the cancelled tasks in that order
CancelOrder(w) == \A v \in Workers : v < w => wpc[v] \in {"cancelled", "exit"}

\* CancelledError is raised in a cancelled worker at the await it is suspended in
WorkerCancelled(w) ==
    /\ ctl = "Gather"
    /\ wpc[w] \in {"created", "stagger", "get", "attempt", "sleep"}
    /\ CancelOrder(w)
    /\ wpc' = [wpc EXCEPT ![w] = "cancelled"]
    /\ UNCHANGED << config, warmVars, running, stats, ctl, i, queue, unfinished, wreq, retry,
                    delay, result, observed >>

Worker(w) ==
    \/ WorkerStart(w)
    \/ WorkerStagger(w)
    \/ WorkerLoop(w)
    \/ WorkerGet(w)
    \/ WorkerGetTimeout(w)
    \/ MakeRequestEntry(w)
    \/ AttemptFinishes(w)
    \/ BackoffSleep(w)
    \/ WorkerFinish(w)
    \/ WorkerCancelled(w)

Controller ==
    \/ RunStart
    \/ ProducerStep
    \/ ProducerPut
    \/ QueueJoin
    \/ CancelWorkers
    \/ Finalize

Next ==
    \/ Interrupt
    \/ RunStart
    \/ ProducerStep
    \/ ProducerPut
    \/ QueueJoin
    \/ CancelWorkers
    \/ Finalize
    \/ \E w \in Workers : WorkerStart(w)
    \/ \E w \in Workers : WorkerStagger(w)
    \/ \E w \in Workers : WorkerLoop(w)
    \/ \E w \in Workers : WorkerGet(w)
    \/ \E w \in Workers : WorkerGetTimeout(w)
    \/ \E w \in Workers : MakeRequestEntry(w)
    \/ \E w \in Workers : AttemptFinishes(w)
    \/ \E w \in Workers : BackoffSleep(w)
    \/ \E w \in Workers : WorkerFinish(w)
    \/ \E w \in Workers : WorkerCancelled(w)

Spec == Init /\ [][Next]_vars

\* every task that can run eventually runs and every HTTP attempt and sleep
\* eventually finishes; nothing obliges an interrupt to arrive
FairSpec ==
    /\ Spec
    /\ WF_vars(Controller)
    /\ \A w \in 0 .. (MaxConcurrency - 1) : WF_vars(w \in Workers /\ Worker(w))

(* ------------------- runs in which no signal arrives ------------------ *)
UninterruptedNext ==
    \/ RunStart
    \/ ProducerStep
    \/ ProducerPut
    \/ QueueJoin
    \/ CancelWorkers
    \/ Finalize
    \/ \E w \in Workers : WorkerStart(w)
    \/ \E w \in Workers : WorkerStagger(w)
    \/ \E w \in Workers : WorkerLoop(w)
    \/ \E w \in Workers : WorkerGet(w)
    \/ \E w \in Workers : WorkerGetTimeout(w)
    \/ \E w \in Workers : MakeRequestEntry(w)
    \/ \E w \in Workers : AttemptFinishes(w)
    \/ \E w \in Workers : BackoffSleep(w)
    \/ \E w \in Workers : WorkerFinish(w)
    \/ \E w \in Workers : WorkerCancelled(w)

\* the steps by which a worker gets on: its start, a dequeue, and every step of
\* the request it holds
Progress(w) ==
    \/ WorkerStart(w)
    \/ WorkerStagger(w)
    \/ WorkerGet(w)
    \/ MakeRequestEntry(w)
    \/ AttemptFinishes(w)
    \/ BackoffSleep(w)
    \/ WorkerFinish(w)
    \/ WorkerCancelled(w)

\* the steps of a worker polling an empty queue
Polls(w) == WorkerLoop(w) \/ WorkerGetTimeout(w)

\* the event loop runs its ready tasks in turn: the controller and the workers'
\* pending steps are ready again and again between the polls of idle workers,
\* so they do run; every HTTP attempt and every sleep eventually finishes, and
\* a task that is running runs on to its next await
UninterruptedFairSpec ==
    /\ Init
    /\ [][UninterruptedNext]_vars
    /\ SF_vars(Controller)
    /\ SF_vars(\E w \in Workers : Progress(w))
    /\ WF_vars(\E w \in Workers : Polls(w))

(* --------------------- runs that begin with a warmup ------------------ *)
\* concurrency // 10 is positive from this concurrency on
WarmupDivisor == 10

MaxWarmRequests == 1

\* a run with a warmup, or the smallest run without one
WarmInit ==
    /\ concurrency \in {1, WarmupDivisor}
    /\ num_requests \in 1 .. (IF concurrency = 1 THEN MaxRequests ELSE MaxWarmRequests)
    /\ target \in Targets
    /\ running = TRUE
    /\ stats = EmptyStats
    /\ ctl = "Idle"
    /\ i = 0
    /\ queue = << >>
    /\ unfinished = 0
    /\ wpc = [w \in Workers |-> "nil"]
    /\ wreq = [w \in Workers |-> 0]
    /\ retry = [w \in Workers |-> 0]
    /\ delay = [w \in Workers |-> 0]
    /\ result = [w \in Workers |-> None]
    /\ warm_pc = [k \in WarmupIds |-> "nil"]
    /\ warm_retry = [k \in WarmupIds |-> 0]
    /\ tries = [w \in Workers |-> 0]
    /\ caught = [w \in Workers |-> "none"]
    /\ recorded = [id \in Ids |-> 0]
    /\ marked = [id \in Ids |-> 0]
    /\ lateGets = [w \in Workers |-> 0]

\* the signal arrives before the worker pool starts (an interrupt of the
\* measured phase is what Spec explores, with fewer workers)
WarmupInterrupt == ctl \in {"Idle", "Warmup"} /\ Interrupt

WarmNext ==
    \/ WarmupInterrupt
    \/ RunStart
    \/ ProducerStep
    \/ ProducerPut
    \/ QueueJoin
    \/ CancelWorkers
    \/ Finalize
    \/ \E w \in Workers : WorkerStart(w)
    \/ \E w \in Workers : WorkerStagger(w)
    \/ \E w \in Workers : WorkerLoop(w)
    \/ \E w \in Workers : WorkerGet(w)
    \/ \E w \in Workers : WorkerGetTimeout(w)
    \/ \E w \in Workers : MakeRequestEntry(w)
    \/ \E w \in Workers : AttemptFinishes(w)
    \/ \E w \in Workers : BackoffSleep(w)
    \/ \E w \in Workers : WorkerFinish(w)
    \/ \E w \in Workers : WorkerCancelled(w)
    \/ RunStartWarmup
    \/ \E k \in WarmupIds : WarmupEntry(k)
    \/ \E k \in WarmupIds : WarmupAttemptFinishes(k)
    \/ \E k \in WarmupIds : WarmupBackoff(k)
    \/ WarmupDone

WarmSpec == WarmInit /\ [][WarmNext]_vars

TypeOK ==
    /\ running \in BOOLEAN
    /\ ctl \in {"Idle", "Warmup", "Produce", "Put", "Join", "ShuttingDown", "Gather", "Done"}
    /\ i \in 0 .. num_requests
    /\ unfinished \in 0 .. num_requests
    /\ \A w \in Workers : wpc[w] \in {"nil", "created", "stagger", "loop", "get", "call",
                                      "attempt", "sleep", "ret", "exit", "cancelled"}
    /\ Cardinality({w \in Workers : WBusy(w)}) + (IF CtlBusy THEN 1 ELSE 0) <= 1

(* ============================== claims ================================ *)
\* statuses of a Result whose retries were exhausted
RetrySentinels == {PyStr("TIMEOUT"), PyStr("CONNECTION_ERROR"), PyStr("PROXY_ERROR")}

\* exception classes handled by a retrying clause / by a clause that never retries
RetryableClasses == {c \in ExcClasses : ExceptClause(c) \in {"timeout", "connection", "proxy"}}
TerminalClasses == {"ClientResponseError", "ValueError"}

Drained == ctl \in {"ShuttingDown", "Gather", "Done"}

\* C1 (as claimed): once the run flag has been cleared, run() eventually
\* reaches Done, provided every task that can run does and every attempt and
\* sleep finishes (FairSpec).
C1_InterruptedRunReachesDone == (~running) ~> (ctl = "Done")

\* C2 (as claimed): an identifier for which an attempt was sent is never marked
\* done (task_done) without its Result being recorded, whenever the flag is
\* cleared.
C2_AttemptedIdIsRecorded ==
    [][\A w \in Workers :
          (wreq[w] \in Ids /\ tries[w] > 0 /\ marked'[wreq[w]] > marked[wreq[w]])
             => recorded'[wreq[w]] > recorded[wreq[w]]]_vars

\* C3 (as claimed): no queue.get() of any worker completes after the flag has
\* been cleared.
C3_NoGetAfterClear == \A w \in Workers : lateGets[w] = 0

\* C3 (amended): after the flag has been cleared a worker that tests it leaves
\* its loop, so each worker completes at most one queue.get() after the clear:
\* the one it had begun before.
C3_AtMostOneLateGet == \A w \in Workers : lateGets[w] <= 1

C3_Witness == \E w \in Workers : lateGets[w] = 1 /\ wpc[w] = "exit"

\* C4: when a run that was never interrupted is Done, every identifier
\* 1..num_requests has exactly one recorded Result and total == num_requests;
\* if all of them were status 200, successful == num_requests and failed == 0.
C4_UninterruptedRunRecordsAll ==
    (ctl = "Done" /\ running) =>
        /\ \A id \in Ids : recorded[id] = 1
        /\ stats.total_requests = num_requests
        /\ CopiesIn("200", stats.status_codes) = num_requests
              => (stats.successful = num_requests /\ stats.failed = 0)

C4_Witness ==
    /\ ctl = "Done" /\ running
    /\ num_requests >= 3 /\ concurrency >= 2
    /\ stats.successful >= 1 /\ stats.failed >= 1
    /\ BagCardinality(stats.errors) >= 1

\* C5: in every reachable state total <= num_requests, no identifier has more
\* than one recorded Result, and no identifier is held by two workers or held
\* by a worker while still in the queue.
C5_NoDoubleCount ==
    /\ stats.total_requests <= num_requests
    /\ \A id \in Ids : recorded[id] <= 1
    /\ \A w \in Workers : wreq[w] # 0 =>
          /\ \A v \in Workers \ {w} : wreq[v] # wreq[w]
          /\ \A k \in 1 .. Len(queue) : queue[k] # wreq[w]
          /\ recorded[wreq[w]] = 0

C5_Witness ==
    /\ ~running
    /\ stats.total_requests >= 2
    /\ CopiesIn("TIMEOUT", stats.status_codes) >= 1
    /\ \E w \in Workers : wreq[w] # 0 /\ retry[w] > 0

\* C6 (as claimed): once queue.join() has returned, every identifier the
\* producer pushed has a recorded Result, in interrupted runs too.
C6_JoinMeansAllRecorded == Drained => \A id \in 1 .. i : recorded[id] = 1

\* C7: in every reachable state total == successful + failed, the counts of
\* status_histogram add up to total, and len(response_times) == total.
C7_AggregateConsistent ==
    /\ stats.total_requests = stats.successful + stats.failed
    /\ BagCardinality(stats.status_codes) = stats.total_requests
    /\ Len(stats.response_times) = stats.total_requests

C7_Witness ==
    /\ concurrency >= 2
    /\ stats.successful >= 1
    /\ stats.failed >= 1
    /\ CopiesIn("404", stats.status_codes) >= 1
    /\ \E w \in Workers : wpc[w] = "attempt"

\* C8: at most 4 attempts are made for an identifier; an attempt that fails
\* with a retryable class is followed by a backoff sleep while fewer than 4
\* attempts were made, and the 4th such failure returns a failed Result with a
\* sentinel status and an error kind, which is recorded once and adds one
\* occurrence to error_histogram.
C8_FourAttemptsThenOneResult ==
    /\ [](\A w \in Workers :
            /\ tries[w] <= 4
            /\ (wpc[w] = "ret" /\ result[w] # None
                  /\ result[w].status_code \in RetrySentinels) => tries[w] = 4)
    /\ [][\A w \in Workers :
            /\ (wpc[w] = "attempt" /\ wpc'[w] # "cancelled"
                  /\ caught'[w] \in RetryableClasses) =>
                  IF tries[w] < 4
                  THEN wpc'[w] = "sleep"
                  ELSE /\ wpc'[w] = "ret"
                       /\ result'[w].status_code \in RetrySentinels
                       /\ ~result'[w].success
                       /\ "error_type" \in DOMAIN result'[w]
            /\ (wpc[w] = "ret" /\ wpc'[w] = "loop" /\ result[w] # None
                  /\ result[w].status_code \in RetrySentinels) =>
                  /\ recorded[wreq[w]] = 0 /\ recorded'[wreq[w]] = 1
                  /\ stats'.failed = stats.failed + 1
                  /\ stats'.successful = stats.successful
                  /\ BagCardinality(stats'.errors) = BagCardinality(stats.errors) + 1
                  /\ CopiesIn(result[w].error_type \o ": " \o result[w].error,
                              stats'.errors)
                       = CopiesIn(result[w].error_type \o ": " \o result[w].error,
                                  stats.errors) + 1
         ]_vars

C8_Witness ==
    /\ running
    /\ CopiesIn("ClientConnectorError: Cannot connect to host", stats.errors) = 1
    /\ CopiesIn("CONNECTION_ERROR", stats.status_codes) = 1
    /\ stats.failed = 1
    /\ \E w \in Workers : /\ tries[w] = 4 /\ wpc[w] = "ret"
                          /\ caught[w] = "ClientProxyConnectionError"

\* C9: an attempt that raises ClientResponseError or an unclassified exception
\* is the last one for its identifier at any retry count: _make_request
\* returns a failed Result with an error kind at once, with no backoff sleep.
C9_TerminalClassesNeverRetried ==
    \A w \in Workers : caught[w] \in TerminalClasses =>
        /\ wpc[w] = "ret"
        /\ result[w] # None
        /\ ~result[w].success
        /\ "error_type" \in DOMAIN result[w]
        /\ delay[w] = 0

C9_Witness ==
    \E w \in Workers :
        /\ caught[w] = "ClientResponseError"
        /\ retry[w] = 2
        /\ wpc[w] = "ret"

\* C10: no exception leaves _make_request (a raised exception ends in a
\* backoff sleep or in a returned Result), and no worker terminates while the
\* run flag is set and the pool has not been cancelled.
C10_FailuresNeverStopWorkers ==
    \A w \in Workers :
        /\ caught[w] # "none" => wpc[w] \in {"sleep", "ret", "cancelled"}
        /\ wpc[w] \in {"exit", "cancelled"} => (~running \/ ctl \in {"Gather", "Done"})

C10_Witness ==
    /\ running
    /\ ctl \in {"Produce", "Put", "Join"}
    /\ CopiesIn("ERROR", stats.status_codes) >= 1
    /\ CopiesIn("TIMEOUT", stats.status_codes) >= 1
    /\ \E w \in Workers : wpc[w] = "get"

(* ------------------------------ C11 ----------------------------------- *)
\* the number of _update_stats calls made for the queue identifiers 1 .. n
RECURSIVE RecordedUpTo(_)
RecordedUpTo(n) == IF n = 0 THEN 0 ELSE recorded[n] + RecordedUpTo(n - 1)

\* the worker tasks have just been created and nothing has been queued yet
PoolStarts == ctl = "Produce" /\ i = 0 /\ \A w \in Workers : wpc[w] = "created"

\* C11: with or without a warmup, and whatever the warmup requests returned,
\* the counters, histograms and response_times are empty when the worker pool
\* starts, and from then on to the end of the run the stats count exactly the
\* results recorded for identifiers taken from the queue
C11_WarmupNeverCounted ==
    /\ PoolStarts =>
          /\ stats.total_requests = 0 /\ stats.successful = 0 /\ stats.failed = 0
          /\ stats.status_codes = EmptyBag /\ stats.errors = EmptyBag
          /\ stats.response_times = << >>
    /\ ctl \notin {"Idle", "Warmup"} =>
          /\ stats.total_requests = RecordedUpTo(num_requests)
          /\ BagCardinality(stats.status_codes) = RecordedUpTo(num_requests)
          /\ Len(stats.response_times) = RecordedUpTo(num_requests)

\* a run whose warmup request was retried has ended with a queue result counted
C11_Witness ==
    /\ warmup_count > 0
    /\ \E k \in WarmupIds : warm_retry[k] > 0
    /\ ctl = "Done"
    /\ stats.total_requests = num_requests
    /\ \A id \in Ids : recorded[id] = 1

(* ------------------------------ C12 ----------------------------------- *)
\* C12: start_time is taken after the warmup burst, so no warmup attempt is
\* in flight, sleeping or about to be retried while start_time is set
C12_StartTimeAfterWarmup ==
    \A k \in WarmupIds :
        warm_pc[k] \in {"created", "attempt", "sleep", "call"} => stats.start_time = "None"

(* ------------------------------ C13 ----------------------------------- *)
\* C13: in every reachable state the queue holds at most 2 * concurrency
\* identifiers and all of them are pending ones; a put on a queue at capacity
\* would exceed the bound, so every put completes below capacity
C13_QueueBounded ==
    /\ Len(queue) <= 2 * concurrency
    /\ Len(queue) <= unfinished

\* the producer is suspended in put() on a full queue with identifiers left
C13_Witness ==
    /\ ctl = "Put"
    /\ Len(queue) = 2 * concurrency
    /\ i < num_requests

(* ------------------------------ C14 ----------------------------------- *)
\* the identifiers dequeued and not yet marked done
InFlight == unfinished - Len(queue)

\* C14: the identifiers in flight (dequeued, not yet marked done, a backoff
\* sleep included) are exactly those the workers hold, one each, so they
\* are never more than concurrency
C14_InFlightBounded ==
    /\ InFlight <= concurrency
    /\ InFlight = Cardinality({w \in Workers : wreq[w] # 0})

\* every worker holds an identifier and one of them sleeps in backoff
C14_Witness ==
    /\ concurrency = MaxConcurrency
    /\ InFlight = concurrency
    /\ \E w \in Workers : wpc[w] = "sleep"

(* ------------------------------ C15 ----------------------------------- *)
\* run() has returned after a complete run: every identifier was pushed and
\* marked done, and every worker was cancelled and awaited
RunCompleted ==
    /\ ctl = "Done"
    /\ i = num_requests
    /\ unfinished = 0
    /\ queue = << >>
    /\ \A w \in Workers : wpc[w] = "cancelled"

\* C15: a run that is never interrupted and whose attempts all finish
\* eventually completes, for every num_requests and concurrency
C15_UninterruptedRunCompletes == <>RunCompleted

\* the largest run has completed
C15_Witness ==
    /\ RunCompleted
    /\ num_requests = MaxRequests /\ concurrency = MaxConcurrency
    /\ stats.end_time = "set"

(* ------------------------------ C16 ----------------------------------- *)
\* worker w passes a Result with a numeric status to _update_stats in this step
RecordsNumeric(w) ==
    /\ wpc[w] = "ret" /\ wpc'[w] = "loop"
    /\ result[w] # None
    /\ result[w].status_code.t = "int"

\* the histogram entry and the counters a recorded Result r must move
CountedOnce(r) ==
    LET key == StrInt(r.status_code.v)
    IN /\ CopiesIn(key, stats'.status_codes) = CopiesIn(key, stats.status_codes) + 1
       /\ BagCardinality(stats'.status_codes) = BagCardinality(stats.status_codes) + 1
       /\ stats'.successful = stats.successful + (IF r.success THEN 1 ELSE 0)
       /\ stats'.failed = stats.failed + (IF r.success THEN 0 ELSE 1)

\* C16 as stated: every Result with a numeric status s is a success exactly
\* when 200 <= s < 400, is counted once under str(s) and once as successful or
\* failed, and a 404 adds nothing to the error histogram
C16_NumericStatusRule ==
    [][\A w \in Workers : RecordsNumeric(w) =>
          LET r == result[w]
              s == r.status_code.v
          IN /\ r.success <=> (200 <= s /\ s < 400)
             /\ CountedOnce(r)
             /\ s = 200 => r.success
             /\ s = 404 => (~r.success /\ stats'.errors = stats.errors)]_vars

\* C16 (amended): a Result built from a response with status s is a success
\* exactly when 200 <= s < 400 and adds nothing to the error histogram; a
\* Result built from a response error carries a numeric status too, is always
\* a failure and adds one entry to the error histogram; either is counted once
\* under str(s) and once as successful or failed
C16_ResponseStatusRule ==
    [][\A w \in Workers : RecordsNumeric(w) =>
          LET r == result[w]
              s == r.status_code.v
          IN /\ CountedOnce(r)
             /\ IF "error_type" \in DOMAIN r
                THEN /\ ~r.success
                     /\ BagCardinality(stats'.errors) = BagCardinality(stats.errors) + 1
                ELSE /\ r.success <=> (200 <= s /\ s < 400)
                     /\ stats'.errors = stats.errors]_vars

\* a response in the range, a response outside it and a response error with a
\* status in the range have all been recorded
C16_Witness ==
    /\ CopiesIn("302", stats.status_codes) = 2
    /\ CopiesIn("400", stats.status_codes) = 1
    /\ stats.successful = 1 /\ stats.failed = 2
    /\ BagCardinality(stats.errors) = 1

(* ------------------------------ C17 ----------------------------------- *)
\* C17: once the flag is cleared no put() of the producer completes, a put
\* that was suspended on a full queue included (i counts the completed puts)
C17_NoPutAfterClear == [][~running => i' = i]_vars

(* ------------------------------ C18 ----------------------------------- *)
\* C18: once end_time is recorded the stats are frozen: join has returned,
\* every worker has returned or been cancelled, none of them holds an
\* identifier or a Result, and no step that changes the stats is possible
C18_FrozenAfterDone ==
    ctl = "Done" =>
        /\ stats.end_time = "set"
        /\ unfinished = 0
        /\ \A w \in Workers :
              /\ wpc[w] \in {"exit", "cancelled"}
              /\ wreq[w] = 0
              /\ result[w] = None
        /\ ~ENABLED (Next /\ stats' # stats)

\* an interrupted run has reached Done with Results recorded, one worker
\* having left its loop and another having been cancelled
C18_Witness ==
    /\ ctl = "Done"
    /\ ~running
    /\ stats.total_requests >= 2
    /\ \E w \in Workers : wpc[w] = "exit"
    /\ \E w \in Workers : wpc[w] = "cancelled"

(* ------------------------------ C19 ----------------------------------- *)
\* C19: the Result returned for a proxy-connection failure (which, being the
\* Result of a retryable failure, is returned once the retries are exhausted)
\* has the status PROXY_ERROR
C19_ProxyFailureIsProxyError ==
    \A w \in Workers :
        (wpc[w] = "ret" /\ caught[w] = "ClientProxyConnectionError" /\ result[w] # None)
            => result[w].status_code = PyStr("PROXY_ERROR")

(* ------------------------------ C20 ----------------------------------- *)
\* the delay, in milliseconds, of the sleep before retry k
DelayBeforeRetry(k) == CASE k = 1 -> 100 [] k = 2 -> 200 [] k = 3 -> 400

\* C20: a worker sleeps only after a failure of a retryable class and only
\* before retry 1, 2 or 3 (retry_count counts the retries already made), for
\* 100, 200 and 400 ms; it has no delay pending at any other point, so none
\* before the first attempt and none after the fourth
C20_BackoffDelays ==
    \A w \in Workers :
        IF wpc[w] = "sleep"
        THEN /\ caught[w] \in RetryableClasses
             /\ retry[w] + 1 \in 1 .. 3
             /\ tries[w] = retry[w] + 1
             /\ delay[w] = DelayBeforeRetry(retry[w] + 1)
        ELSE delay[w] = 0

\* a worker sleeps 400 ms before the third retry after a proxy failure while
\* another sleeps 100 ms before its first retry
C20_Witness ==
    /\ \E w \in Workers :
          /\ wpc[w] = "sleep" /\ retry[w] = 2 /\ delay[w] = 400
          /\ caught[w] = "ClientProxyConnectionError"
    /\ \E w \in Workers : wpc[w] = "sleep" /\ retry[w] = 0 /\ delay[w] = 100
====
